---- MODULE Spec2Model ----
(***************************************************************************)
(* Model of src/src/config.rs (ciel-rs): the maintainer validator          *)
(* validate_maintainer, the default record, and apply_config writing the   *)
(* four generated files below a root directory.                            *)
(*                                                                         *)
(* A Rust String that the code walks byte by byte (the maintainer) is a    *)
(* sequence of one-byte strings; file contents are TLA+ strings.           *)
(***************************************************************************)
EXTENDS Naturals, Sequences, FiniteSets

VARIABLES
    maintainer,  \* validate_maintainer: the argument
    pos,         \* validate_maintainer: index of the byte the loop is at
    lt, gt, at, name, nbsp,  \* validate_maintainer: the five flags
    ret,         \* validate_maintainer: the value returned, NotReturned before
    config,      \* apply_config: the record applied
    fs,          \* the files below root, by relative location
    dirs,        \* the parent directories that exist below root
    art,         \* apply_config: the artifact being written, 1..4
    pc,          \* apply_config: the call it is about to make
    result,      \* apply_config: the value returned, NotReturned before
    fsStart,     \* fs when the current call of apply_config began
    fs0,         \* fs before the first call
    runs,        \* calls of apply_config so far
    failed,      \* the artifact whose step failed in the current call, 0 for none
    root,        \* apply_config: the root argument, a path
    attended,    \* ask_for_config: what user_attended() answers
    supplied,    \* ask_for_config: the argument, <<>> for None, <<c>> for Some(c)
    wconfig,     \* ask_for_config: the local config
    wpc,         \* ask_for_config: the prompt it is at
    wret,        \* ask_for_config: the value returned
    edit_source, \* ask_for_config: the local edit_source
    prompts,     \* prompts shown so far
    rejected,    \* entries the maintainer prompt refused so far
    edits,       \* times the editor was started
    seed,        \* the text the editor was started on
    edited,      \* how the editor ended: "none", "saved" or "aborted"
    saved,       \* the record given to save_config
    text,        \* the persisted text, a document of keys and typed values
    loaded,      \* what load_config returned
    changes      \* changes made to the text since it was saved

validateVars == <<maintainer, pos, lt, gt, at, name, nbsp, ret>>
applyVars ==
    <<config, fs, dirs, art, pc, result, fsStart, fs0, runs, failed, root>>
wizardVars ==
    <<attended, supplied, wconfig, wpc, wret, edit_source, prompts, rejected,
      edits, seed, edited>>
storeVars == <<saved, text, loaded, changes>>
vars == <<validateVars, applyVars, wizardVars, storeVars>>

(***************************************************************************)
(* Bounds                                                                  *)
(***************************************************************************)
\* every byte string of at most MaxLen bytes is an input of the validator
MaxLen == 6
\* longest N, L and D of the inputs built as N " <" L "@" D ">" T, T being
\* empty or one byte
MaxTok == 1
\* calls of apply_config in a row on one tree
MaxRuns == 2
\* entries the maintainer prompt refuses before the user gives a good one
MaxRejected == 2
\* changes made to a persisted text before it is loaded
MaxChanges == 2

(***************************************************************************)
(* Constants of the source                                                 *)
(***************************************************************************)
CURRENT_CIEL_VERSION == 3
DEFAULT_APT_SOURCE == "deb https://repo.aosc.io/debs/ stable main"
DEFAULT_AB3_CONFIG_LOCATION == "usr/lib/autobuild3/etc/autobuild/ab3cfg.sh"
DEFAULT_APT_LIST_LOCATION == "etc/apt/sources.list"
DEFAULT_RESOLV_LOCATION == "etc/systemd/resolved.conf"
DEFAULT_ACBS_CONFIG == "etc/acbs/forest.conf"

NotReturned == "none"
OkUnit == "Ok(())"
ErrName == "Please enter a name."
ErrFormat == "Invalid format."
ErrIo == "Err(io)"
ErrRoot == "Parent directory is root."

\* "Bot <null@aosc.io>"
DefaultMaintainer ==
    <<"B", "o", "t", " ", "<", "n", "u", "l", "l", "@",
      "a", "o", "s", "c", ".", "i", "o", ">">>
\* "test <aosc@aosc.io>" and "test <aosc@aosc.io;" of test_validate_maintainer
TestGood ==
    <<"t", "e", "s", "t", " ", "<", "a", "o", "s", "c", "@",
      "a", "o", "s", "c", ".", "i", "o", ">">>
TestBad ==
    <<"t", "e", "s", "t", " ", "<", "a", "o", "s", "c", "@",
      "a", "o", "s", "c", ".", "i", "o", ";">>

(***************************************************************************)
(* validate_maintainer                                                     *)
(***************************************************************************)
Space == {" ", "\t"}
\* the bytes inputs are built from: the five the match names and one other
Bytes == {"<", ">", "@", " ", "\t", "a"}
NonSpace == Bytes \ Space

Strings(S, lo, hi) == UNION {[1..n -> S] : n \in lo..hi}

ShapedInputs ==
    {n \o <<" ", "<">> \o l \o <<"@">> \o d \o <<">">> \o t :
        n \in Strings(NonSpace, 1, MaxTok), l \in Strings(NonSpace, 1, MaxTok),
        d \in Strings(NonSpace, 1, MaxTok), t \in Strings(Bytes, 0, 1)}

Inputs ==
    Strings(Bytes, 0, MaxLen) \cup ShapedInputs
        \cup {DefaultMaintainer, TestGood, TestBad}

NoFlags == [lt |-> FALSE, gt |-> FALSE, at |-> FALSE, name |-> FALSE, nbsp |-> FALSE]
Flags == [lt |-> lt, gt |-> gt, at |-> at, name |-> name, nbsp |-> nbsp]

\* what one arm of the match does: the flags after it, and the error it
\* returns (NotReturned when the loop goes on)
GoOn(f) == [f |-> f, ret |-> NotReturned]
Return(f, e) == [f |-> f, ret |-> e]

\* ArmLt reporting the wrong variant
ArmLt_InvalidFormat(f) ==
    IF ~f.nbsp THEN Return(f, ErrFormat) ELSE GoOn([f EXCEPT !.lt = TRUE])

\* ArmLt starting a new group: the ">" and the "@" seen so far are forgotten
ArmLt_Resets(f) ==
    IF ~f.nbsp
    THEN Return(f, ErrName)
    ELSE GoOn([f EXCEPT !.lt = TRUE, !.gt = FALSE, !.at = FALSE])

ArmLt(f) ==
    IF ~f.nbsp THEN Return(f, ErrName) ELSE GoOn([f EXCEPT !.lt = TRUE])

\* ArmGt refusing a second ">"
ArmGt_Once(f) ==
    IF ~f.lt \/ f.gt THEN Return(f, ErrFormat) ELSE GoOn([f EXCEPT !.gt = TRUE])

ArmGt(f) ==
    IF ~f.lt THEN Return(f, ErrFormat) ELSE GoOn([f EXCEPT !.gt = TRUE])

\* ArmAt refusing a second "@"
ArmAt_Once(f) ==
    IF ~f.lt \/ f.gt \/ f.at
    THEN Return(f, ErrFormat)
    ELSE GoOn([f EXCEPT !.at = TRUE])

ArmAt(f) ==
    IF ~f.lt \/ f.gt THEN Return(f, ErrFormat) ELSE GoOn([f EXCEPT !.at = TRUE])

ArmSpace(f) ==
    IF ~f.name THEN Return(f, ErrName) ELSE GoOn([f EXCEPT !.nbsp = TRUE])

ArmOther(f) ==
    IF ~f.nbsp THEN GoOn([f EXCEPT !.name = TRUE]) ELSE GoOn(f)

MatchByte(f, c) ==
    CASE c = "<" -> ArmLt(f)
      [] c = ">" -> ArmGt(f)
      [] c = "@" -> ArmAt(f)
      [] c \in Space -> ArmSpace(f)
      [] OTHER -> ArmOther(f)

\* FinalCheck forgetting the ">"
FinalCheck_NoGt(f) ==
    IF f.name /\ f.lt /\ f.at THEN OkUnit ELSE ErrFormat

FinalCheck(f) ==
    IF f.name /\ f.gt /\ f.lt /\ f.at THEN OkUnit ELSE ErrFormat

RECURSIVE ScanFrom(_, _, _)
ScanFrom(s, i, f) ==
    IF i > Len(s) THEN FinalCheck(f)
    ELSE LET r == MatchByte(f, s[i])
         IN  IF r.ret # NotReturned THEN r.ret ELSE ScanFrom(s, i + 1, r.f)

\* the function as a whole
validate_maintainer(s) == ScanFrom(s, 1, NoFlags)

InLoop == ret = NotReturned /\ pos <= Len(maintainer)

Take(r) ==
    /\ lt' = r.f.lt /\ gt' = r.f.gt /\ at' = r.f.at
    /\ name' = r.f.name /\ nbsp' = r.f.nbsp
    /\ ret' = r.ret
    /\ pos' = IF r.ret = NotReturned THEN pos + 1 ELSE pos
    /\ UNCHANGED <<maintainer, applyVars, wizardVars, storeVars>>

ScanLt == InLoop /\ maintainer[pos] = "<" /\ Take(ArmLt(Flags))
ScanGt == InLoop /\ maintainer[pos] = ">" /\ Take(ArmGt(Flags))
ScanAt == InLoop /\ maintainer[pos] = "@" /\ Take(ArmAt(Flags))
ScanSpace == InLoop /\ maintainer[pos] \in Space /\ Take(ArmSpace(Flags))
ScanOther ==
    /\ InLoop
    /\ maintainer[pos] \notin {"<", ">", "@"} \cup Space
    /\ Take(ArmOther(Flags))

LoopEnd ==
    /\ ret = NotReturned
    /\ pos > Len(maintainer)
    /\ ret' = FinalCheck(Flags)
    /\ UNCHANGED
           <<maintainer, pos, lt, gt, at, name, nbsp, applyVars, wizardVars,
             storeVars>>

(***************************************************************************)
(* CielConfig and its Default                                              *)
(***************************************************************************)
\* the default record with no package source lines
default_NoSources ==
    [version |-> CURRENT_CIEL_VERSION,
     maintainer |-> DefaultMaintainer,
     dnssec |-> FALSE,
     apt_sources |-> "",
     local_repo |-> TRUE,
     local_sources |-> TRUE,
     extra_options |-> <<>>,
     sep_mount |-> TRUE,
     volatile_mount |-> FALSE]

\* the default record with the ">" of its maintainer mistyped
default_BadMaintainer ==
    [version |-> CURRENT_CIEL_VERSION,
     maintainer |-> TestBad,
     dnssec |-> FALSE,
     apt_sources |-> DEFAULT_APT_SOURCE,
     local_repo |-> TRUE,
     local_sources |-> TRUE,
     extra_options |-> <<>>,
     sep_mount |-> TRUE,
     volatile_mount |-> FALSE]

default ==
    [version |-> CURRENT_CIEL_VERSION,
     maintainer |-> DefaultMaintainer,
     dnssec |-> FALSE,
     apt_sources |-> DEFAULT_APT_SOURCE,
     local_repo |-> TRUE,
     local_sources |-> TRUE,
     extra_options |-> <<>>,
     sep_mount |-> TRUE,
     volatile_mount |-> FALSE]

\* the records apply_config is run on
Maintainers == {DefaultMaintainer, <<"a", "\"", "$">>, <<>>}
AptSources == {"", DEFAULT_APT_SOURCE, "deb a\ndeb b\n"}
Configs ==
    {[default EXCEPT !.maintainer = m, !.dnssec = d, !.apt_sources = a,
                     !.local_repo = o, !.local_sources = o, !.sep_mount = o,
                     !.volatile_mount = ~o,
                     !.extra_options = IF o THEN <<>> ELSE <<"--bind=/x">>] :
        m \in Maintainers, d \in BOOLEAN, a \in AptSources, o \in BOOLEAN}

(***************************************************************************)
(* The tree below root                                                     *)
(***************************************************************************)
\* the four artifacts, in the order apply_config writes them
Locations ==
    <<DEFAULT_AB3_CONFIG_LOCATION, DEFAULT_APT_LIST_LOCATION,
      DEFAULT_RESOLV_LOCATION, DEFAULT_ACBS_CONFIG>>
LocationSet == {Locations[k] : k \in 1..4}

\* Path::parent of root joined with the location
ParentDir(loc) ==
    CASE loc = DEFAULT_AB3_CONFIG_LOCATION -> "usr/lib/autobuild3/etc/autobuild"
      [] loc = DEFAULT_APT_LIST_LOCATION -> "etc/apt"
      [] loc = DEFAULT_RESOLV_LOCATION -> "etc/systemd"
      [] loc = DEFAULT_ACBS_CONFIG -> "etc/acbs"

\* a path: whether it starts at the filesystem root, and its components
RelPath(comps) == [abs |-> FALSE, comps |-> comps]
AbsPath(comps) == [abs |-> TRUE, comps |-> comps]

\* the roots apply_config is given: "", "/", "/srv/root" and "work"
Roots == {RelPath(<<>>), AbsPath(<<>>), AbsPath(<<"srv", "root">>), RelPath(<<"work">>)}

\* the components of a location
Components(loc) ==
    CASE loc = DEFAULT_AB3_CONFIG_LOCATION ->
             <<"usr", "lib", "autobuild3", "etc", "autobuild", "ab3cfg.sh">>
      [] loc = DEFAULT_APT_LIST_LOCATION -> <<"etc", "apt", "sources.list">>
      [] loc = DEFAULT_RESOLV_LOCATION -> <<"etc", "systemd", "resolved.conf">>
      [] loc = DEFAULT_ACBS_CONFIG -> <<"etc", "acbs", "forest.conf">>

\* PathBuf::push of a relative path: its components are appended
Push(p, comps) == [p EXCEPT !.comps = p.comps \o comps]

\* Path::parent: None (<<>>) for "" and for "/", else Some (<<parent>>) of
\* the path without its last component
Parent(p) ==
    IF p.comps = <<>> THEN <<>>
    ELSE <<[p EXCEPT !.comps = SubSeq(p.comps, 1, Len(p.comps) - 1)]>>

\* a file: torn is set when a write failed part way, data then being cut
\* short at an unknown byte
Absent == [exists |-> FALSE, data |-> "", torn |-> FALSE]
File(data) == [exists |-> TRUE, data |-> data, torn |-> FALSE]
Torn(data) == [exists |-> TRUE, data |-> data, torn |-> TRUE]
OldData == "old\n"

EmptyTree == [loc \in LocationSet |-> Absent]
Trees == [LocationSet -> {Absent, File(OldData)}]
FilesOf(t) == {loc \in LocationSet : t[loc].exists}

\* String from its bytes
RECURSIVE Str(_)
Str(s) == IF s = <<>> THEN "" ELSE Head(s) \o Str(Tail(s))

(***************************************************************************)
(* apply_config                                                            *)
(***************************************************************************)
\* every artifact written whatever the record says
Applicable_Always(k, c) == TRUE

\* the resolver override written when DNSSEC is enabled
Applicable_DnssecInverted(k, c) ==
    CASE k = 1 -> TRUE
      [] k = 2 -> c.apt_sources # ""
      [] k = 3 -> c.dnssec
      [] k = 4 -> TRUE

\* the conditions at lines 216 and 224; the first and the last artifact are
\* written unconditionally
Applicable(k, c) ==
    CASE k = 1 -> TRUE
      [] k = 2 -> c.apt_sources # ""
      [] k = 3 -> ~c.dnssec
      [] k = 4 -> TRUE

\* the maintainer with its double quotes escaped for the shell
RECURSIVE StrEscaped(_)
StrEscaped(s) ==
    IF s = <<>> THEN ""
    ELSE (IF Head(s) = "\"" THEN "\\\"" ELSE Head(s)) \o StrEscaped(Tail(s))

Ab3Content_Escaped(c) ==
    "#!/bin/bash\nABMPM=dpkg\nABAPMS=\nABINSTALL=dpkg\nMTER=\""
        \o StrEscaped(c.maintainer) \o "\""

\* format!("#!/bin/bash\n...MTER=\"{}\"", config.maintainer)
Ab3Content(c) ==
    "#!/bin/bash\nABMPM=dpkg\nABAPMS=\nABINSTALL=dpkg\nMTER=\""
        \o Str(c.maintainer) \o "\""

\* the bytes handed to write_all for artifact k
Content(k, c) ==
    CASE k = 1 -> Ab3Content(c)
      [] k = 2 -> c.apt_sources
      [] k = 3 -> "[Resolve]\nDNSSEC=no\n"
      [] k = 4 -> "[default]\nlocation = /tree/\n"

\* the file opened without truncating it
CreateFile_NoTruncate(old) == IF old.exists THEN old ELSE File("")

\* std::fs::File::create: the file is created, or truncated when it exists
CreateFile(old) == File("")

\* write_all on the handle File::create returned: the bytes go in at the
\* cursor, which is the end of what the handle has written
WriteAll(f, data) == File(f.data \o data)

Loc == Locations[art]

\* the path built without the push of the location
ArtifactPath_NoPush(r, k) == r

\* rootfs.to_owned() and the push of the location of artifact k
ArtifactPath(r, k) == Push(r, Components(Locations[k]))

\* create_parent_dir finds a parent to create
HasParent == Parent(ArtifactPath(root, art)) # <<>>

\* apply_config is called (again: only after a call that returned Ok)
ApplyCall ==
    /\ pc \in {"idle", "returned"}
    /\ pc = "returned" => result = OkUnit
    /\ runs < MaxRuns
    /\ pc' = "create_parent_dir"
    /\ art' = 1
    /\ result' = NotReturned
    /\ fsStart' = fs
    /\ runs' = runs + 1
    /\ UNCHANGED <<validateVars, wizardVars, storeVars, root, config, fs, dirs, fs0, failed>>

\* after artifact art: on to the next one, or Ok(()) after the fourth
NextArtifact ==
    IF art = 4
    THEN pc' = "returned" /\ result' = OkUnit /\ art' = art
    ELSE pc' = "create_parent_dir" /\ result' = result /\ art' = art + 1

\* the ? operator dropping the Err and going on
Propagate_Swallow ==
    /\ failed' = art
    /\ IF art = 4
       THEN pc' = "returned" /\ result' = OkUnit /\ art' = art
       ELSE pc' = "create_parent_dir" /\ result' = result /\ art' = art + 1

\* the ? operator on an Err
Propagate ==
    pc' = "returned" /\ result' = ErrIo /\ art' = art /\ failed' = art

\* the ? operator on the Err of ok_or_else in create_parent_dir
PropagateRoot ==
    pc' = "returned" /\ result' = ErrRoot /\ art' = art /\ failed' = art

\* an artifact whose condition is false is passed over
SkipArtifact ==
    /\ pc = "create_parent_dir"
    /\ ~Applicable(art, config)
    /\ NextArtifact
    /\ UNCHANGED <<validateVars, wizardVars, storeVars, root, config, fs, dirs, fsStart, fs0, runs, failed>>

CreateParentDirOk ==
    /\ pc = "create_parent_dir"
    /\ Applicable(art, config)
    /\ HasParent
    /\ dirs' = dirs \cup {ParentDir(Loc)}
    /\ pc' = "create"
    /\ UNCHANGED
           <<validateVars, wizardVars, storeVars, root, config, fs, art, result, fsStart, fs0, runs, failed>>

CreateParentDirErr ==
    /\ pc = "create_parent_dir"
    /\ Applicable(art, config)
    /\ IF HasParent THEN Propagate ELSE PropagateRoot
    /\ UNCHANGED <<validateVars, wizardVars, storeVars, root, config, fs, dirs, fsStart, fs0, runs>>

FileCreateOk ==
    /\ pc = "create"
    /\ fs' = [fs EXCEPT ![Loc] = CreateFile(fs[Loc])]
    /\ pc' = "write_all"
    /\ UNCHANGED
           <<validateVars, wizardVars, storeVars, root, config, dirs, art, result, fsStart, fs0, runs, failed>>

FileCreateErr ==
    /\ pc = "create"
    /\ Propagate
    /\ UNCHANGED <<validateVars, wizardVars, storeVars, root, config, fs, dirs, fsStart, fs0, runs>>

WriteAllOk ==
    /\ pc = "write_all"
    /\ fs' = [fs EXCEPT ![Loc] = WriteAll(fs[Loc], Content(art, config))]
    /\ NextArtifact
    /\ UNCHANGED <<validateVars, wizardVars, storeVars, root, config, dirs, fsStart, fs0, runs, failed>>

\* a failed write leaves nothing or a part of the bytes
WriteAllErr ==
    /\ pc = "write_all"
    /\ \E f \in {fs[Loc], Torn(Content(art, config))} :
           fs' = [fs EXCEPT ![Loc] = f]
    /\ Propagate
    /\ UNCHANGED <<validateVars, wizardVars, storeVars, root, config, dirs, fsStart, fs0, runs>>

(***************************************************************************)
(* ask_for_config                                                          *)
(***************************************************************************)
None == <<>>
Some(v) == <<v>>

\* Option::unwrap_or_default forgetting the record it was given
UnwrapOrDefault_Forgets(o) == default

\* config.unwrap_or_default()
UnwrapOrDefault(o) == IF o = None THEN default ELSE o[1]

\* what ask_for_config returns
NoResult == [tag |-> "none", value |-> default]
OkConfig(c) == [tag |-> "Ok", value |-> c]
ErrPrompt == [tag |-> "Err", value |-> default]

\* the records ask_for_config is given
WizardConfigs ==
    {[default EXCEPT !.maintainer = m, !.apt_sources = a, !.dnssec = d] :
        m \in {DefaultMaintainer, TestBad}, a \in {"", "deb a\ndeb b\n"},
        d \in BOOLEAN}

\* what the user types at the maintainer prompt; <<>> is the Enter key alone
Typed == {<<>>, <<"a", " ", "<", "@", ">">>, <<"a">>, <<" ">>, TestBad}

\* what the user leaves in the editor
EditorTexts(start) == {start, start \o "deb c\n", ""}

\* a validator that lets everything through
Accepts_Anything(value) == TRUE

\* validate_with(validate_maintainer): the prompt takes a value when the
\* validator returns Ok
Accepts(value) == validate_maintainer(value) = OkUnit

\* the value of an entry: the default of the prompt on Enter alone
Entry(typed, dflt) == IF typed = <<>> THEN dflt ELSE typed

\* the editor started on the package source lines as they are
EditorSeed_AsIs(sources) == sources

\* the text the editor is started on (lines 164-168)
EditorSeed(sources) == IF sources = "" THEN DEFAULT_APT_SOURCE ELSE sources

wizardFrame == <<validateVars, applyVars, storeVars, attended, supplied>>

\* lines 141-145: nobody at the terminal
AskUnattended ==
    /\ wpc = "start"
    /\ ~attended
    /\ wconfig' = UnwrapOrDefault(supplied)
    /\ wret' = OkConfig(wconfig')
    /\ wpc' = "returned"
    /\ UNCHANGED <<wizardFrame, edit_source, prompts, rejected, edits, seed, edited>>

\* lines 141-146: somebody at the terminal
AskAttended ==
    /\ wpc = "start"
    /\ attended
    /\ wconfig' = UnwrapOrDefault(supplied)
    /\ wpc' = "maintainer"
    /\ UNCHANGED
           <<wizardFrame, wret, edit_source, prompts, rejected, edits, seed,
             edited>>

\* the maintainer prompt refuses an entry and asks again
InputRejected ==
    /\ wpc = "maintainer"
    /\ rejected < MaxRejected
    /\ \E typed \in Typed : ~Accepts(Entry(typed, wconfig.maintainer))
    /\ rejected' = rejected + 1
    /\ UNCHANGED
           <<wizardFrame, wconfig, wpc, wret, edit_source, prompts, edits, seed,
             edited>>

\* the maintainer prompt takes an entry (lines 147-151)
InputAccepted ==
    /\ wpc = "maintainer"
    /\ \E typed \in Typed :
           /\ Accepts(Entry(typed, wconfig.maintainer))
           /\ wconfig' =
                  [wconfig EXCEPT !.maintainer = Entry(typed, wconfig.maintainer)]
    /\ prompts' = prompts + 1
    /\ wpc' = "dnssec"
    /\ UNCHANGED <<wizardFrame, wret, edit_source, rejected, edits, seed, edited>>

\* lines 152-155
ConfirmDnssec ==
    /\ wpc = "dnssec"
    /\ \E b \in BOOLEAN : wconfig' = [wconfig EXCEPT !.dnssec = b]
    /\ prompts' = prompts + 1
    /\ wpc' = "edit_source"
    /\ UNCHANGED <<wizardFrame, wret, edit_source, rejected, edits, seed, edited>>

\* lines 156-160
ConfirmEditSource ==
    /\ wpc = "edit_source"
    /\ \E b \in BOOLEAN :
           /\ edit_source' = b
           /\ wpc' = IF b THEN "editor" ELSE "local_sources"
    /\ prompts' = prompts + 1
    /\ UNCHANGED <<wizardFrame, wconfig, wret, rejected, edits, seed, edited>>

\* lines 161-169: the editor is left with a text saved
EditorSaved ==
    /\ wpc = "editor"
    /\ seed' = EditorSeed(wconfig.apt_sources)
    /\ \E t \in EditorTexts(seed') : wconfig' = [wconfig EXCEPT !.apt_sources = t]
    /\ edits' = edits + 1
    /\ edited' = "saved"
    /\ wpc' = "local_sources"
    /\ UNCHANGED <<wizardFrame, wret, edit_source, prompts, rejected>>

\* lines 161-169: the editor is left without saving, edit returns None
EditorAborted ==
    /\ wpc = "editor"
    /\ seed' = EditorSeed(wconfig.apt_sources)
    /\ wconfig' = [wconfig EXCEPT !.apt_sources = DEFAULT_APT_SOURCE]
    /\ edits' = edits + 1
    /\ edited' = "aborted"
    /\ wpc' = "local_sources"
    /\ UNCHANGED <<wizardFrame, wret, edit_source, prompts, rejected>>

\* lines 171-174
ConfirmLocalSources ==
    /\ wpc = "local_sources"
    /\ \E b \in BOOLEAN : wconfig' = [wconfig EXCEPT !.local_sources = b]
    /\ prompts' = prompts + 1
    /\ wpc' = "local_repo"
    /\ UNCHANGED <<wizardFrame, wret, edit_source, rejected, edits, seed, edited>>

\* lines 175-178
ConfirmLocalRepo ==
    /\ wpc = "local_repo"
    /\ \E b \in BOOLEAN : wconfig' = [wconfig EXCEPT !.local_repo = b]
    /\ prompts' = prompts + 1
    /\ wpc' = "sep_mount"
    /\ UNCHANGED <<wizardFrame, wret, edit_source, rejected, edits, seed, edited>>

\* lines 179-182
ConfirmSepMount ==
    /\ wpc = "sep_mount"
    /\ \E b \in BOOLEAN : wconfig' = [wconfig EXCEPT !.sep_mount = b]
    /\ prompts' = prompts + 1
    /\ wpc' = "volatile_mount"
    /\ UNCHANGED <<wizardFrame, wret, edit_source, rejected, edits, seed, edited>>

\* lines 183-188
ConfirmVolatileMount ==
    /\ wpc = "volatile_mount"
    /\ \E b \in BOOLEAN : wconfig' = [wconfig EXCEPT !.volatile_mount = b]
    /\ prompts' = prompts + 1
    /\ wret' = OkConfig(wconfig')
    /\ wpc' = "returned"
    /\ UNCHANGED <<wizardFrame, edit_source, rejected, edits, seed, edited>>

\* the ? operator on a prompt or an editor that failed
PromptFailed ==
    /\ wpc \notin {"start", "returned"}
    /\ IF wpc = "editor"
       THEN /\ seed' = EditorSeed(wconfig.apt_sources)
            /\ edits' = edits + 1
            /\ prompts' = prompts
       ELSE /\ prompts' = prompts + 1
            /\ UNCHANGED <<seed, edits>>
    /\ wret' = ErrPrompt
    /\ wpc' = "returned"
    /\ UNCHANGED <<wizardFrame, wconfig, edit_source, rejected, edited>>

(***************************************************************************)
(* save_config, load_config                                                *)
(***************************************************************************)
Fields == DOMAIN default

\* the key of a field in the text: its name, or its serde rename
Key(f) ==
    CASE f = "extra_options" -> "nspawn-extra-options"
      [] f = "sep_mount" -> "branch-exclusive-output"
      [] f = "volatile_mount" -> "volatile-mount"
      [] OTHER -> f

\* the type of a field in the text
TypeOf(f) ==
    CASE f = "version" -> "integer"
      [] f \in {"maintainer", "apt_sources"} -> "string"
      [] f = "extra_options" -> "array"
      [] OTHER -> "boolean"

FieldOf(k) == CHOOSE f \in Fields : Key(f) = k
Keys == {Key(f) : f \in Fields}
TextValue(f, v) == [type |-> TypeOf(f), v |-> v]

\* no field takes a default when its key is missing
Defaulted_None == {}

\* the fields marked serde(default), and the value they take
Defaulted == {"volatile_mount"}
FieldDefault(f) == FALSE

\* a text with no key in it
EmptyText == <<>>

\* a writer that leaves out an empty sequence
save_config_SkipsEmpty(r) ==
    [k \in {Key(f) : f \in {g \in Fields : g # "extra_options" \/ Len(r[g]) > 0}} |->
        TextValue(FieldOf(k), r[FieldOf(k)])]

\* save_config: every field under its key, with its value as it is
save_config(r) == [k \in Keys |-> TextValue(FieldOf(k), r[FieldOf(k)])]

NotLoaded == [tag |-> "none", value |-> default]
OkLoaded(r) == [tag |-> "Ok", value |-> r]
ErrCodec == [tag |-> "Err", value |-> default]

\* the text gives field f a value of the type of f
Gives(t, f) == Key(f) \in DOMAIN t /\ t[Key(f)].type = TypeOf(f)

\* load_config: a field is read from its key, takes its default when the key
\* is missing and the field has one; keys of no field are passed over
load_config(t) ==
    IF \A f \in Fields :
           \/ Gives(t, f)
           \/ Key(f) \notin DOMAIN t /\ f \in Defaulted
    THEN OkLoaded([f \in Fields |->
                      IF Key(f) \in DOMAIN t THEN t[Key(f)].v ELSE FieldDefault(f)])
    ELSE ErrCodec

\* the records that get persisted
StoreConfigs ==
    {[default EXCEPT !.version = n, !.apt_sources = a, !.extra_options = x,
                     !.volatile_mount = v] :
        n \in {CURRENT_CIEL_VERSION - 1, CURRENT_CIEL_VERSION},
        a \in {"", "deb a\ndeb b\n"},
        x \in {<<>>, <<"--bind=/x">>},
        v \in BOOLEAN}

\* a key no field has
UnknownKey == "future-key"
UnknownValue == [type |-> "string", v |-> "x"]

storeFrame == <<validateVars, applyVars, wizardVars, saved>>

SaveConfig ==
    /\ text = EmptyText
    /\ loaded = NotLoaded
    /\ text' = save_config(saved)
    /\ UNCHANGED <<storeFrame, loaded, changes>>

\* a text as a program without one of the fields wrote it
RemoveKey ==
    /\ text # EmptyText
    /\ loaded = NotLoaded
    /\ changes < MaxChanges
    /\ \E k \in DOMAIN text : text' = [j \in DOMAIN text \ {k} |-> text[j]]
    /\ changes' = changes + 1
    /\ UNCHANGED <<storeFrame, loaded>>

\* a text as a program with one more field wrote it
AddUnknownKey ==
    /\ text # EmptyText
    /\ loaded = NotLoaded
    /\ changes < MaxChanges
    /\ UnknownKey \notin DOMAIN text
    /\ text' =
           [j \in DOMAIN text \cup {UnknownKey} |->
               IF j = UnknownKey THEN UnknownValue ELSE text[j]]
    /\ changes' = changes + 1
    /\ UNCHANGED <<storeFrame, loaded>>

LoadConfig ==
    /\ loaded = NotLoaded
    /\ loaded' = load_config(text)
    /\ UNCHANGED <<storeFrame, text, changes>>

\* apply_config called on the record load_config returned
ApplyLoaded ==
    /\ loaded.tag = "Ok"
    /\ pc = "idle"
    /\ config' = loaded.value
    /\ pc' = "create_parent_dir"
    /\ art' = 1
    /\ result' = NotReturned
    /\ fsStart' = fs
    /\ runs' = runs + 1
    /\ UNCHANGED <<validateVars, wizardVars, storeVars, root, fs, dirs, fs0, failed>>

(***************************************************************************)
(* Specifications                                                          *)
(***************************************************************************)
WizardIdle ==
    /\ attended = FALSE
    /\ supplied = None
    /\ wconfig = default
    /\ wpc = "start"
    /\ wret = NoResult
    /\ edit_source = FALSE
    /\ prompts = 0
    /\ rejected = 0
    /\ edits = 0
    /\ seed = ""
    /\ edited = "none"

StoreIdle ==
    /\ saved = default
    /\ text = EmptyText
    /\ loaded = NotLoaded
    /\ changes = 0

ApplyIdle ==
    /\ config = default
    /\ fs = EmptyTree
    /\ dirs = {}
    /\ art = 1
    /\ pc = "idle"
    /\ result = NotReturned
    /\ fsStart = EmptyTree
    /\ fs0 = EmptyTree
    /\ runs = 0
    /\ failed = 0
    /\ root = RelPath(<<>>)

ValidateIdle ==
    /\ maintainer = <<>>
    /\ pos = 1
    /\ lt = FALSE /\ gt = FALSE /\ at = FALSE /\ name = FALSE /\ nbsp = FALSE
    /\ ret = NotReturned

\* validate_maintainer on every input
InitValidate ==
    /\ maintainer \in Inputs
    /\ pos = 1
    /\ lt = FALSE /\ gt = FALSE /\ at = FALSE /\ name = FALSE /\ nbsp = FALSE
    /\ ret = NotReturned
    /\ ApplyIdle
    /\ WizardIdle
    /\ StoreIdle

NextValidate ==
    \/ ScanLt
    \/ ScanGt
    \/ ScanAt
    \/ ScanSpace
    \/ ScanOther
    \/ LoopEnd

SpecValidate == InitValidate /\ [][NextValidate]_vars

\* apply_config on every record and every tree
InitApply ==
    /\ config \in Configs
    /\ fs \in Trees
    /\ dirs \in SUBSET {ParentDir(loc) : loc \in LocationSet}
    /\ \A loc \in FilesOf(fs) : ParentDir(loc) \in dirs
    /\ art = 1
    /\ pc = "idle"
    /\ result = NotReturned
    /\ fsStart = fs
    /\ fs0 = fs
    /\ runs = 0
    /\ failed = 0
    /\ root \in Roots
    /\ ValidateIdle
    /\ WizardIdle
    /\ StoreIdle

NextApply ==
    \/ ApplyCall
    \/ SkipArtifact
    \/ CreateParentDirOk
    \/ CreateParentDirErr
    \/ FileCreateOk
    \/ FileCreateErr
    \/ WriteAllOk
    \/ WriteAllErr

SpecApply == InitApply /\ [][NextApply]_vars

\* ask_for_config on every argument, with and without a user
InitWizard ==
    /\ attended \in BOOLEAN
    /\ supplied \in {None} \cup {Some(c) : c \in WizardConfigs}
    /\ wconfig = default
    /\ wpc = "start"
    /\ wret = NoResult
    /\ edit_source = FALSE
    /\ prompts = 0
    /\ rejected = 0
    /\ edits = 0
    /\ seed = ""
    /\ edited = "none"
    /\ ValidateIdle
    /\ ApplyIdle
    /\ StoreIdle

NextWizard ==
    \/ AskUnattended
    \/ AskAttended
    \/ InputRejected
    \/ InputAccepted
    \/ ConfirmDnssec
    \/ ConfirmEditSource
    \/ EditorSaved
    \/ EditorAborted
    \/ ConfirmLocalSources
    \/ ConfirmLocalRepo
    \/ ConfirmSepMount
    \/ ConfirmVolatileMount
    \/ PromptFailed

SpecWizard == InitWizard /\ [][NextWizard]_vars

\* a record saved, its text changed or not, loaded and applied
InitStore ==
    /\ saved \in StoreConfigs
    /\ text = EmptyText
    /\ loaded = NotLoaded
    /\ changes = 0
    /\ ValidateIdle
    /\ ApplyIdle
    /\ WizardIdle

NextStore ==
    \/ SaveConfig
    \/ RemoveKey
    \/ AddUnknownKey
    \/ LoadConfig
    \/ ApplyLoaded
    \/ SkipArtifact
    \/ CreateParentDirOk
    \/ CreateParentDirErr
    \/ FileCreateOk
    \/ FileCreateErr
    \/ WriteAllOk
    \/ WriteAllErr

SpecStore == InitStore /\ [][NextStore]_vars

(***************************************************************************)
(* Properties of validate_maintainer (SpecValidate)                        *)
(***************************************************************************)
Returned == ret # NotReturned
Marks == {"<", ">", "@"}
NoSpaceIn(s, a, b) == \A p \in a..b : s[p] \notin Space
NoControl(s) == \A p \in 1..Len(s) : s[p] # "\t"

\* s matches ^\S+ <\S+@\S+>.*$
MatchesShape(s) ==
    \E i \in 2..Len(s) :
        /\ s[i] = " " /\ NoSpaceIn(s, 1, i - 1)
        /\ i + 1 <= Len(s) /\ s[i + 1] = "<"
        /\ \E j \in (i + 3)..Len(s) :
               /\ s[j] = "@" /\ NoSpaceIn(s, i + 2, j - 1)
               /\ \E k \in (j + 2)..Len(s) :
                      s[k] = ">" /\ NoSpaceIn(s, j + 1, k - 1)

\* the bytes before the first space or tab hold none of < > @
NameHasNoMarks(s) ==
    \A p \in 1..Len(s) : NoSpaceIn(s, 1, p) => s[p] \notin Marks

NoAtAfterGt(s) ==
    \A p, q \in 1..Len(s) : (p < q /\ s[p] = ">") => s[q] # "@"

\* C1 as claimed: every input of the shape N " <" L "@" D ">" T, with N, L
\* and D non-empty runs of non-whitespace bytes, T anything and no control
\* byte, is accepted.
C1_AsClaimed ==
    (Returned /\ MatchesShape(maintainer) /\ NoControl(maintainer))
        => ret = OkUnit

\* C1 amended: such an input is accepted provided N holds none of < > @ and
\* no "@" comes after the first ">" of the input.
C1_ShapeAccepted ==
    (/\ Returned
     /\ MatchesShape(maintainer) /\ NoControl(maintainer)
     /\ NameHasNoMarks(maintainer) /\ NoAtAfterGt(maintainer))
        => ret = OkUnit

C1_Witness ==
    /\ ret = OkUnit
    /\ MatchesShape(maintainer) /\ NoControl(maintainer)
    /\ NameHasNoMarks(maintainer) /\ NoAtAfterGt(maintainer)
    /\ Len(maintainer) > 7
    /\ maintainer[Len(maintainer)] # ">"

Prefix(s, k) == SubSeq(s, 1, k)
NoAtIn(s, a, b) == \A p \in a..b : s[p] # "@"

\* C2 as claimed: when a prefix of the input is accepted as an input of its
\* own, the input is accepted, whatever bytes follow the prefix.
C2_AsClaimed ==
    Returned =>
        \A k \in 0..Len(maintainer) :
            validate_maintainer(Prefix(maintainer, k)) = OkUnit => ret = OkUnit

\* C2 amended: when a prefix of the input is accepted as an input of its own
\* and no "@" follows the prefix, the input is accepted.
C2_SuffixKeepsAccepted ==
    Returned =>
        \A k \in 0..Len(maintainer) :
            (/\ validate_maintainer(Prefix(maintainer, k)) = OkUnit
             /\ NoAtIn(maintainer, k + 1, Len(maintainer)))
                => ret = OkUnit

C2_Witness ==
    /\ ret = OkUnit
    /\ \E k \in 0..Len(maintainer) :
           /\ k + 1 <= Len(maintainer)
           /\ validate_maintainer(Prefix(maintainer, k)) = OkUnit
           /\ maintainer[k + 1] \in Space

Has(s, c) == \E p \in 1..Len(s) : s[p] = c
IsFirst(s, p, c) == s[p] = c /\ \A q \in 1..(p - 1) : s[q] # c

\* the order C3 gives: a name byte first, a space or tab before the first
\* "<", that before every "@", an "@", and the first ">" after every "@"
WellOrdered(s) ==
    /\ Len(s) > 0
    /\ s[1] \notin Space \cup Marks
    /\ \E f \in 1..Len(s) :
           /\ IsFirst(s, f, "<")
           /\ \E w \in 1..(f - 1) : s[w] \in Space
           /\ \A a \in 1..Len(s) : s[a] = "@" => f < a
    /\ Has(s, "@")
    /\ \E g \in 1..Len(s) :
           /\ IsFirst(s, g, ">")
           /\ \A a \in 1..Len(s) : s[a] = "@" => a < g

NoAngle(s) == ~Has(s, "<") /\ ~Has(s, ">")
StartsWithSpace(s) == Len(s) > 0 /\ s[1] \in Space

\* what C3 says besides the last clause: an accepted input is well ordered,
\* and an input whose name, "<" and "@" were seen and that holds no ">" is
\* refused as invalid format, "test <aosc@aosc.io;" among them
C3_Order ==
    /\ ret = OkUnit => WellOrdered(maintainer)
    /\ (Returned /\ name /\ lt /\ at /\ ~Has(maintainer, ">"))
           => ret = ErrFormat
    /\ (Returned /\ maintainer = TestBad) => ret = ErrFormat

\* C3 as claimed: the above, and every input without any angle bracket is
\* refused as invalid format.
C3_AsClaimed ==
    /\ C3_Order
    /\ (Returned /\ NoAngle(maintainer)) => ret = ErrFormat

\* C3 amended: the above, and every input without any angle bracket is
\* refused: as invalid format unless it starts with a space or tab, which is
\* refused as a missing name.
C3_OnlyWellOrdered ==
    /\ C3_Order
    /\ (Returned /\ NoAngle(maintainer)) =>
           ret = IF StartsWithSpace(maintainer) THEN ErrName ELSE ErrFormat

C3_Witness ==
    /\ ret = OkUnit
    /\ maintainer = TestGood

\* the loop has been through byte i
Processed(i) == i < pos \/ (i = pos /\ Returned)

\* C4: an input starting with a space or tab, and an input in which the
\* loop comes to a "<" with no space or tab before it, is refused with
\* "Please enter a name.".
C4_MissingName ==
    /\ (Returned /\ StartsWithSpace(maintainer)) => ret = ErrName
    /\ \A i \in 1..Len(maintainer) :
           (/\ Processed(i)
            /\ maintainer[i] = "<"
            /\ NoSpaceIn(maintainer, 1, i - 1))
               => ret = ErrName

C4_Witness ==
    /\ ret = ErrName
    /\ pos > 1
    /\ maintainer[pos] = "<"
    /\ NoSpaceIn(maintainer, 1, pos - 1)

(***************************************************************************)
(* Properties of apply_config (SpecApply)                                  *)
(***************************************************************************)
ReturnedOk == pc = "returned" /\ result = OkUnit
Ab3 == DEFAULT_AB3_CONFIG_LOCATION
AptList == DEFAULT_APT_LIST_LOCATION
Resolv == DEFAULT_RESOLV_LOCATION
Acbs == DEFAULT_ACBS_CONFIG

\* the default record has been applied once, to a tree without any file
DefaultAppliedToEmpty ==
    /\ config = default
    /\ fs0 = EmptyTree
    /\ runs = 1
    /\ ReturnedOk

\* C5 as claimed: the default record has the maintainer
\* "Bot <null@aosc.io>", DNSSEC disabled and no package source lines, and
\* applied to an empty tree it leaves the three files ab3cfg.sh,
\* resolved.conf and forest.conf and no sources.list.
C5_AsClaimed ==
    DefaultAppliedToEmpty =>
        /\ config.maintainer = DefaultMaintainer
        /\ ~config.dnssec
        /\ config.apt_sources = ""
        /\ FilesOf(fs) = {Ab3, Resolv, Acbs}

\* C5 amended: the default record has the maintainer "Bot <null@aosc.io>",
\* DNSSEC disabled and the one package source line
\* "deb https://repo.aosc.io/debs/ stable main", and applied to an empty tree
\* it leaves four files, sources.list with that line among them.
C5_DefaultApplied ==
    DefaultAppliedToEmpty =>
        /\ Str(config.maintainer) = "Bot <null@aosc.io>"
        /\ ~config.dnssec
        /\ config.apt_sources = "deb https://repo.aosc.io/debs/ stable main"
        /\ FilesOf(fs) = {Ab3, AptList, Resolv, Acbs}
        /\ fs[AptList] = File("deb https://repo.aosc.io/debs/ stable main")

C5_Witness ==
    /\ DefaultAppliedToEmpty
    /\ dirs = {ParentDir(loc) : loc \in LocationSet}

\* C6: with no package source lines sources.list is never touched, in any
\* step of any call; with some, a call that returns Ok leaves sources.list
\* holding exactly those lines.
C6_SourcesList ==
    /\ config.apt_sources = "" => fs[AptList] = fs0[AptList]
    /\ (config.apt_sources # "" /\ ReturnedOk)
           => fs[AptList] = File(config.apt_sources)

C6_Witness ==
    /\ ReturnedOk
    /\ config.apt_sources = ""
    /\ fs[AptList] = File(OldData)

\* C7: with DNSSEC enabled resolved.conf is never touched, in any step of
\* any call; with DNSSEC disabled, a call that returns Ok leaves
\* resolved.conf holding exactly "[Resolve]\nDNSSEC=no\n".
C7_ResolvedConf ==
    /\ config.dnssec => fs[Resolv] = fs0[Resolv]
    /\ (~config.dnssec /\ ReturnedOk)
           => fs[Resolv] = File("[Resolve]\nDNSSEC=no\n")

C7_Witness ==
    /\ ReturnedOk
    /\ config.dnssec
    /\ fs[Resolv] = File(OldData)

Preamble == "#!/bin/bash\nABMPM=dpkg\nABAPMS=\nABINSTALL=dpkg\n"

\* C8: a call that returns Ok leaves forest.conf holding exactly
\* "[default]\nlocation = /tree/\n" and ab3cfg.sh holding exactly the
\* preamble and MTER="<maintainer>", the maintainer byte for byte, whatever
\* the other fields and whatever the two files held.
C8_AlwaysWritten ==
    ReturnedOk =>
        /\ fs[Acbs] = File("[default]\nlocation = /tree/\n")
        /\ fs[Ab3] = File(Preamble \o "MTER=\"" \o Str(config.maintainer) \o "\"")
        /\ config.maintainer = <<"a", "\"", "$">>
               => fs[Ab3].data = Preamble \o "MTER=\"a\"$\""

C8_Witness ==
    /\ ReturnedOk
    /\ fs0[Ab3] = File(OldData) /\ fs0[Acbs] = File(OldData)
    /\ config.maintainer = <<"a", "\"", "$">>
    /\ config.dnssec /\ config.apt_sources = "" /\ ~config.local_repo

\* the order C9 gives
ClaimedOrder == <<Ab3, AptList, Resolv, Acbs>>

\* C9: when a step of artifact k fails, apply_config has returned an error
\* at that step: every artifact before k in the order identity file, source
\* list, resolver override, forest location that the record asks for holds
\* its whole new content, and every artifact after k is as it was when the
\* call began.
C9_FirstFailureReturns ==
    failed # 0 =>
        /\ pc = "returned" /\ result = ErrIo /\ art = failed
        /\ \A j \in 1..4 :
               /\ j < failed =>
                      fs[ClaimedOrder[j]] =
                          IF Applicable(j, config)
                          THEN File(Content(j, config))
                          ELSE fsStart[ClaimedOrder[j]]
               /\ j > failed => fs[ClaimedOrder[j]] = fsStart[ClaimedOrder[j]]

C9_Witness ==
    /\ failed = 3
    /\ result = ErrIo
    /\ config.apt_sources # ""
    /\ fsStart = [loc \in LocationSet |-> File(OldData)]
    /\ fs[Resolv] = Torn(Content(3, config))

\* C10: a call that returns Ok leaves a tree that is a function of the
\* record and the tree it began with, each written file a function of the
\* record alone; and a second call in a row leaves the tree as the first
\* left it.
C10_Idempotent ==
    ReturnedOk =>
        /\ \A k \in 1..4 :
               fs[Locations[k]] =
                   IF Applicable(k, config)
                   THEN File(Content(k, config))
                   ELSE fsStart[Locations[k]]
        /\ runs >= 2 => fs = fsStart

C10_Witness ==
    /\ ReturnedOk
    /\ runs = 2
    /\ fs0 = [loc \in LocationSet |-> File(OldData)]
    /\ config.dnssec

\* the parent directory create_parent_dir is to create for artifact k
ParentOfArtifact(k) == Parent(ArtifactPath(root, k))

\* C20: whatever the root, the empty path and "/" included, each of the four
\* artifact paths has a parent, the root followed by the directories of the
\* location, so apply_config never returns "Parent directory is root.":
\* every failure of apply_config is an I/O failure.
C20_ParentExists ==
    /\ \A k \in 1..4 :
           /\ ParentOfArtifact(k) # <<>>
           /\ Len(ParentOfArtifact(k)[1].comps) >= Len(root.comps) + 2
           /\ ParentOfArtifact(k)[1].abs = root.abs
    /\ result # ErrRoot
    /\ (pc = "returned" /\ result # OkUnit) => (result = ErrIo /\ failed # 0)

C20_Witness ==
    /\ root = AbsPath(<<>>)
    /\ pc = "returned"
    /\ result = ErrIo
    /\ failed = 1
    /\ fs = fs0

(***************************************************************************)
(* More properties of validate_maintainer (SpecValidate)                   *)
(***************************************************************************)
\* C16: the maintainer of the default record, "Bot <null@aosc.io>", is
\* accepted by validate_maintainer, and the default record has the current
\* version and volatile_mount false.
C16_DefaultValidates ==
    /\ Str(default.maintainer) = "Bot <null@aosc.io>"
    /\ (Returned /\ maintainer = default.maintainer) => ret = OkUnit
    /\ default.version = CURRENT_CIEL_VERSION
    /\ default.volatile_mount = FALSE

C16_Witness ==
    /\ ret = OkUnit
    /\ maintainer = default.maintainer
    /\ pos = Len(default.maintainer) + 1

\* the function returned from inside the loop, at byte pos
RejectedMidScan == Returned /\ pos <= Len(maintainer)

\* what may follow the offending byte
Tails == Strings(Bytes, 0, 1)

FlagsKeptSet ==
    /\ lt => lt'
    /\ gt => gt'
    /\ at => at'
    /\ name => name'
    /\ nbsp => nbsp'

\* C19: the scan is one pass forward that stops at the first offending
\* byte: an input refused inside the loop gets the result of its prefix up
\* to that byte, whatever bytes follow the prefix; no step clears a flag or
\* moves backwards; and once a space or tab was seen, a byte of the name
\* kind changes no flag.
C19_ForwardOnly ==
    /\ [](RejectedMidScan =>
            /\ ret \in {ErrName, ErrFormat}
            /\ \A t \in Tails :
                   validate_maintainer(Prefix(maintainer, pos) \o t) = ret)
    /\ [][/\ FlagsKeptSet
          /\ pos' \in {pos, pos + 1}
          /\ Returned => UNCHANGED <<pos, ret>>
          /\ (InLoop /\ nbsp /\ maintainer[pos] \notin Marks \cup Space)
                 => UNCHANGED <<lt, gt, at, name, nbsp>>]_vars

C19_Witness ==
    /\ RejectedMidScan
    /\ pos + 1 < Len(maintainer)
    /\ lt /\ gt /\ nbsp /\ name
    /\ ret = ErrFormat


(***************************************************************************)
(* C11, C12, C17, C18: ask_for_config                                      *)
(***************************************************************************)
AskReturned == wpc = "returned"
Given == IF supplied = <<>> THEN default ELSE supplied[1]
Valid(m) == validate_maintainer(m) = OkUnit

\* C11: with no user at the terminal and a supplied record whose maintainer
\* validate_maintainer refuses, ask_for_config returns an error and not that
\* record.
C11_AsClaimed ==
    (AskReturned /\ ~attended /\ supplied # None /\ ~Valid(supplied[1].maintainer))
        => wret.tag = "Err"

\* C12: with no user at the terminal ask_for_config returns the supplied
\* record field for field, the default record when none is supplied, and
\* shows no prompt, refuses no entry and starts no editor.
C12_Unattended ==
    ~attended =>
        /\ prompts = 0
        /\ rejected = 0
        /\ edits = 0
        /\ wpc \in {"start", "returned"}
        /\ AskReturned =>
               /\ wret.tag = "Ok"
               /\ \A f \in DOMAIN default : wret.value[f] = Given[f]
               /\ supplied = None => wret.value = default

C12_Witness ==
    /\ AskReturned
    /\ ~attended
    /\ supplied # None
    /\ supplied[1] # default
    /\ wret = OkConfig(supplied[1])

\* C17: with a user at the terminal, every record ask_for_config returns has
\* a maintainer that validate_maintainer accepts, whatever the user entered
\* and however often an entry was refused; a refused entry is never stored.
C17_OnlyValidated ==
    attended =>
        /\ (wpc \notin {"start", "maintainer"} /\ wret.tag # "Err")
               => Valid(wconfig.maintainer)
        /\ wpc = "maintainer" => wconfig.maintainer = Given.maintainer
        /\ (AskReturned /\ wret.tag = "Ok") =>
               /\ Valid(wret.value.maintainer)
               /\ wret.value.maintainer = wconfig.maintainer

C17_Witness ==
    /\ AskReturned
    /\ attended
    /\ wret.tag = "Ok"
    /\ rejected = MaxRejected
    /\ ~Valid(Given.maintainer)
    /\ wret.value.maintainer # Given.maintainer

\* C18: with a user at the terminal the package source lines change in the
\* editor alone: declining to edit returns the supplied lines, empty or not;
\* an edit left unsaved returns the sample line whatever the lines were; and
\* empty lines start the editor on the sample line.
C18_SourcesThroughEditor ==
    (attended /\ wpc # "start") =>
        /\ edits = 0 => wconfig.apt_sources = Given.apt_sources
        /\ edits > 0 =>
               /\ edit_source
               /\ edits = 1
               /\ seed =
                      IF Given.apt_sources = ""
                      THEN DEFAULT_APT_SOURCE
                      ELSE Given.apt_sources
        /\ edited = "aborted" => wconfig.apt_sources = DEFAULT_APT_SOURCE
        /\ edited = "saved" => wconfig.apt_sources \in EditorTexts(seed)
        /\ (AskReturned /\ wret.tag = "Ok") =>
               /\ wret.value.apt_sources = wconfig.apt_sources
               /\ ~edit_source =>
                      /\ edits = 0
                      /\ wret.value.apt_sources = Given.apt_sources

C18_Witness ==
    /\ AskReturned
    /\ attended
    /\ wret.tag = "Ok"
    /\ edit_source
    /\ edited = "aborted"
    /\ Given.apt_sources = ""
    /\ seed = DEFAULT_APT_SOURCE
    /\ wret.value.apt_sources = DEFAULT_APT_SOURCE


(***************************************************************************)
(* C13, C14, C15: save_config, load_config and the path to apply_config    *)
(***************************************************************************)
Loaded == loaded.tag # "none"
AllBut(f) == \A g \in Fields \ {f} : Key(g) \in DOMAIN text

\* C13: a loaded record whose version is not CURRENT_CIEL_VERSION is not
\* applied and not migrated: apply_config is not run on it and no artifact
\* is written for it.
C13_AsClaimed ==
    (loaded.tag = "Ok" /\ loaded.value.version # CURRENT_CIEL_VERSION) =>
        /\ pc = "idle"
        /\ fs = fs0

C15_MissingVolatileMount ==
    (Loaded /\ AllBut("volatile_mount")) =>
        /\ loaded.tag = "Ok"
        /\ "volatile-mount" \notin DOMAIN text => loaded.value.volatile_mount = FALSE
        /\ \A f \in Fields \ {"volatile_mount"} : loaded.value[f] = saved[f]
        /\ \A k \in DOMAIN text \cap Keys : loaded.value[FieldOf(k)] = text[k].v

C15_Witness ==
    /\ loaded.tag = "Ok"
    /\ DOMAIN text = (Keys \ {"volatile-mount"}) \cup {UnknownKey}
    /\ saved.volatile_mount
    /\ ~loaded.value.volatile_mount

====
